---- MODULE Spec2Model ----
(***************************************************************************)
(* Model of src/server.js: an express server that stores uploaded MP4      *)
(* files in an S3-compatible bucket under a random identifier, renders a   *)
(* viewer page for an identifier and redirects raw playback to a signed    *)
(* URL.  Strings that the code inspects character by character             *)
(* (identifiers, keys, URLs) are sequences of one-character strings.       *)
(***************************************************************************)
EXTENDS Integers, Sequences, FiniteSets, TLC

VARIABLES
    PUBLIC_BASE_URL, \* process.env.PUBLIC_BASE_URL, read once at startup
    store,           \* the bucket: key -> stored object
    issued,          \* the identifiers crypto.randomUUID() has returned so far
    reqs             \* the requests received so far, finished or in flight

vars == <<PUBLIC_BASE_URL, store, issued, reqs>>

----------------------------------------------------------------------------
(* Bounds of the model *)

\* number of requests the server receives in one behaviour
MaxReq == 2

\* number of distinct values crypto.randomUUID() may return
NumUUIDs == 2

----------------------------------------------------------------------------
(* Program constants *)

\* limits: { fileSize: 250 * 1024 * 1024 }
FileSizeLimit == 250 * 1024 * 1024

\* { expiresIn: 60 * 10 }
ExpiresIn == 60 * 10

\* the {20,} of the regular expression in validId
MinIdLen == 20

\* the [0-9a-fA-F-] of the regular expression in validId
IdChars ==
    {"0", "1", "2", "3", "4", "5", "6", "7", "8", "9",
     "a", "b", "c", "d", "e", "f", "A", "B", "C", "D", "E", "F", "-"}

Mp4 == "video/mp4"

CacheControlImmutable == "public, max-age=31536000, immutable"

----------------------------------------------------------------------------
(* Pure helpers *)

\* the string made of n copies of the character c
Rep(c, n) == [i \in 1..n |-> c]

\* faulty variant: the character class dropped, only the length is tested
validIdLengthOnly(id) == Len(id) >= MinIdLen

\* /^[0-9a-fA-F-]{20,}$/.test(id)
validId(id) ==
    /\ Len(id) >= MinIdLen
    /\ \A i \in 1..Len(id) : id[i] \in IdChars

\* faulty variant: one key for every upload
KeyFixed(id) == <<"v", "i", "d", "e", "o", ".", "m", "p", "4">>

\* `${id}.mp4`
KeyOf(id) == id \o <<".", "m", "p", "4">>

\* PUBLIC_BASE_URL.replace(/\/+$/, ""): drops every trailing slash
RECURSIVE StripTrailingSlashes(_)
StripTrailingSlashes(s) ==
    IF Len(s) > 0 /\ s[Len(s)] = "/"
    THEN StripTrailingSlashes(SubSeq(s, 1, Len(s) - 1))
    ELSE s

\* faulty variant: replace(/\/$/, "") drops a single trailing slash
PageUrlOneSlash(base, id) ==
    (IF Len(base) > 0 /\ base[Len(base)] = "/"
     THEN SubSeq(base, 1, Len(base) - 1)
     ELSE base) \o <<"/", "v", "/">> \o id

\* `${PUBLIC_BASE_URL.replace(/\/+$/, "")}/v/${id}`
PageUrl(base, id) == StripTrailingSlashes(base) \o <<"/", "v", "/">> \o id

\* the path the viewer page's <source> element points at: `/raw/${id}`
RawPath(id) == <<"/", "r", "a", "w", "/">> \o id

\* faulty variant: the <source> element points at the viewer page itself
viewHtmlSelf(id) ==
    <<"<!doctype html>...<source src=\"">> \o <<"/", "v", "/">> \o id
        \o <<"\" type=\"video/mp4\" />...</html>">>

\* viewHtml(id): the template with the identifier interpolated into the
\* src attribute; the literal text around it is kept as two tokens
viewHtml(id) ==
    <<"<!doctype html>...<source src=\"">> \o RawPath(id)
        \o <<"\" type=\"video/mp4\" />...</html>">>

\* the 36-character hyphenated form crypto.randomUUID() returns (lower-case
\* hex, groups of 8-4-4-4-12, version digit 4); n picks the random digits
HexLower == <<"0", "1", "2", "3", "4", "5", "6", "7",
              "8", "9", "a", "b", "c", "d", "e", "f">>

UUID(n) ==
    LET h == HexLower[(n % 16) + 1]
        v == HexLower[9 + (n % 4)]
    IN  Rep(h, 8) \o <<"-">> \o Rep(h, 4) \o <<"-", "4">> \o Rep(h, 3)
            \o <<"-", v>> \o Rep(h, 3) \o <<"-">> \o Rep(h, 12)

RandomUUIDs == {UUID(n) : n \in 0..(NumUUIDs - 1)}

\* getSignedUrl(s3, new GetObjectCommand({Bucket, Key}), {expiresIn}):
\* the URL is determined by the key and the lifetime signed into it
SignedUrl(key, ttl) == [Key |-> key, expiresIn |-> ttl]

----------------------------------------------------------------------------
(* Inputs *)

\* values the environment may give PUBLIC_BASE_URL (any non-empty string)
BaseUrls ==
    {<<"h", "t", "t", "p", ":", "/", "/", "x">>,
     <<"h", "t", "t", "p", ":", "/", "/", "x", "/">>,
     <<"h", "t", "t", "p", ":", "/", "/", "x", "/", "/">>}

MimeTypes == {Mp4, "video/webm"}

\* the bytes of an uploaded file: two different files below the limit, one
\* of exactly the limit and one a byte above it
Buffers ==
    {[content |-> "A", size |-> FileSizeLimit - 1],
     [content |-> "B", size |-> FileSizeLimit - 1],
     [content |-> "A", size |-> FileSizeLimit],
     [content |-> "A", size |-> FileSizeLimit + 1]}

\* req.file is undefined when the multipart body carries no "file" field
NoFile == [mimetype |-> "none", size |-> 0, content |-> "none"]

Files ==
    {[mimetype |-> m, size |-> b.size, content |-> b.content] :
        m \in MimeTypes, b \in Buffers}

\* identifiers a client may put in the path of /v/:id and /raw/:id:
\* "ab", 19 hex digits, 20 characters with a non-hex letter, 20 upper-case
\* hex digits and hyphens, and every value randomUUID may return (requested
\* before or after its upload)
PathIds ==
    {<<"a", "b">>,
     Rep("a", MinIdLen - 1),
     Rep("a", MinIdLen - 1) \o <<"g">>,
     Rep("A", MinIdLen - 1) \o <<"-">>}
    \cup RandomUUIDs

\* failures of the S3 client: an Error object with a name and a message
StoreErrors ==
    {[name |-> "AccessDenied", message |-> "Access Denied"],
     [name |-> "TimeoutError", message |-> ""]}

----------------------------------------------------------------------------
(* Requests and responses *)

NoId == <<>>

\* no Location header
NoLocation == [Key |-> <<>>, expiresIn |-> 0]

NoResp == [status |-> 0, body |-> [type |-> "none"], location |-> NoLocation]

NoError == [name |-> "none", message |-> "none"]

\* a request as it arrives: nothing sent, no store operation issued.
\* ops lists the commands the handler handed to the S3 client; result and
\* error record how the awaited store call settled ("none" while there is
\* none or it is pending, then "ok" or "error" with the error thrown)
NewReq(kind, file, id) ==
    [kind |-> kind, file |-> file, id |-> id, pc |-> "start",
     nresp |-> 0, resp |-> NoResp, ops |-> <<>>,
     result |-> "none", error |-> NoError]

\* res.status(..).json / send / end / redirect: one response goes out and
\* the handler returns
Respond(r, status, body, location) ==
    [r EXCEPT !.resp = [status |-> status, body |-> body, location |-> location],
              !.nresp = @ + 1,
              !.pc = "done"]

\* String(e) as evaluated in `e?.message || String(e)`: reached only when
\* the message is empty, where Error.prototype.toString yields the name
StringOf(e) == e.name

\* e?.message || String(e)
ErrorMessage(e) == IF e.message # "" THEN e.message ELSE StringOf(e)

\* app.use((err, req, res, next) => res.status(400).json({error: ...}))
ErrorMiddleware(r, err) ==
    Respond(r, 400,
            [type |-> "json",
             error |-> IF err.message # "" THEN err.message ELSE "Bad request"],
            NoLocation)

\* faulty variant: every content type is accepted
fileFilterAny(file) == TRUE

\* fileFilter: cb(null, true) exactly for video/mp4
fileFilter(file) == file.mimetype = Mp4

\* faulty variant: no limits.fileSize
LimitNever(size) == {FALSE}

\* limits.fileSize: whether multer aborts the upload with LIMIT_FILE_SIZE.
\* A file above the limit always is; a file of exactly the limit is or is
\* not, depending on the multer release that is installed.
LimitHit(size) ==
    IF size > FileSizeLimit THEN {TRUE}
    ELSE IF size = FileSizeLimit THEN {TRUE, FALSE}
    ELSE {FALSE}

\* new PutObjectCommand({Bucket, Key, Body, ContentType, CacheControl, ..})
PutObjectCommand(key, file) ==
    [op |-> "put", Key |-> key,
     Body |-> [content |-> file.content, size |-> file.size],
     ContentType |-> Mp4, CacheControl |-> CacheControlImmutable]

\* faulty variant: expiresIn left out, the presigner's default of 900 s applies
SignCommandDefaultTtl(key) == [op |-> "sign", Key |-> key, expiresIn |-> 900]

\* new GetObjectCommand({Bucket, Key}) handed to getSignedUrl with expiresIn
SignCommand(key) == [op |-> "sign", Key |-> key, expiresIn |-> ExpiresIn]

\* the bucket after a successful put: the object is readable under the key
\* (last write wins)
StorePut(s, cmd) ==
    [k \in DOMAIN s \cup {cmd.Key} |->
        IF k = cmd.Key
        THEN [Body |-> cmd.Body, ContentType |-> cmd.ContentType,
              CacheControl |-> cmd.CacheControl]
        ELSE s[k]]

----------------------------------------------------------------------------
(* Handlers *)

\* crypto.randomUUID(): a value not returned before (122 random bits; a
\* repeat is taken not to happen)
randomUUID == RandomUUIDs \ issued

\* POST /upload up to `await s3.send(...)`: multer's upload.single("file")
\* runs first, then the handler
UploadHandler(req, id, hit) ==
    IF req.file = NoFile
    THEN Respond(req, 400, [type |-> "json", error |-> "Missing file"], NoLocation)
    ELSE IF ~fileFilter(req.file)
    THEN ErrorMiddleware(req, [name |-> "Error", message |-> "Only video/mp4 allowed"])
    ELSE IF hit
    THEN ErrorMiddleware(req, [name |-> "MulterError", message |-> "File too large"])
    ELSE [req EXCEPT !.id = id,
                     !.ops = Append(@, PutObjectCommand(KeyOf(id), req.file)),
                     !.pc = "await_put"]

Upload(file) ==
    /\ Len(reqs) < MaxReq
    /\ \E id \in randomUUID, hit \in LimitHit(file.size) :
          LET r == UploadHandler(NewReq("upload", file, NoId), id, hit)
          IN  /\ reqs' = Append(reqs, r)
              /\ issued' = IF r.pc = "await_put" THEN issued \cup {id} ELSE issued
    /\ UNCHANGED <<PUBLIC_BASE_URL, store>>

\* faulty variant: id kept in a variable of the module, shared by all requests, so
\* the response carries the id of the upload that started last
UploadDoneSharedId(r) ==
    LET last == CHOOSE i \in 1..Len(reqs) :
                    /\ reqs[i].kind = "upload" /\ reqs[i].ops # <<>>
                    /\ \A j \in (i + 1)..Len(reqs) :
                          ~(reqs[j].kind = "upload" /\ reqs[j].ops # <<>>)
    IN  Respond(r, 200,
                [type |-> "json", id |-> reqs[last].id,
                 url |-> PageUrl(PUBLIC_BASE_URL, reqs[last].id)],
                NoLocation)

\* the rest of the handler once the put resolved: res.json({id, url})
UploadDone(r) ==
    Respond(r, 200,
            [type |-> "json", id |-> r.id, url |-> PageUrl(PUBLIC_BASE_URL, r.id)],
            NoLocation)

PutSucceeds(i) ==
    /\ reqs[i].pc = "await_put"
    /\ store' = StorePut(store, reqs[i].ops[Len(reqs[i].ops)])
    /\ reqs' = [reqs EXCEPT ![i] = UploadDone([@ EXCEPT !.result = "ok"])]
    /\ UNCHANGED <<PUBLIC_BASE_URL, issued>>

\* faulty variant: the put is sent again after a failure
UploadCatchRetry(r, e) ==
    [r EXCEPT !.ops = Append(@, @[Len(@)]), !.pc = "await_put"]

\* catch (e) { res.status(500).json({ error: e?.message || String(e) }) }
UploadCatch(r, e) ==
    Respond(r, 500, [type |-> "json", error |-> ErrorMessage(e)], NoLocation)

PutFails(i, e) ==
    /\ reqs[i].pc = "await_put"
    /\ reqs' = [reqs EXCEPT ![i] =
                    UploadCatch([@ EXCEPT !.result = "error", !.error = e], e)]
    /\ UNCHANGED <<PUBLIC_BASE_URL, store, issued>>

\* GET /v/:id
ViewHandler(req) ==
    IF ~validId(req.id)
    THEN Respond(req, 400, [type |-> "text", text |-> "Bad id"], NoLocation)
    ELSE Respond(req, 200, [type |-> "html", html |-> viewHtml(req.id)], NoLocation)

View(id) ==
    /\ Len(reqs) < MaxReq
    /\ reqs' = Append(reqs, ViewHandler(NewReq("view", NoFile, id)))
    /\ UNCHANGED <<PUBLIC_BASE_URL, store, issued>>

\* GET /raw/:id up to `await getSignedUrl(...)`
RawHandler(req) ==
    IF ~validId(req.id)
    THEN Respond(req, 400, [type |-> "text", text |-> "Bad id"], NoLocation)
    ELSE [req EXCEPT !.ops = Append(@, SignCommand(KeyOf(req.id))),
                     !.pc = "await_sign"]

Raw(id) ==
    /\ Len(reqs) < MaxReq
    /\ reqs' = Append(reqs, RawHandler(NewReq("raw", NoFile, id)))
    /\ UNCHANGED <<PUBLIC_BASE_URL, store, issued>>

\* res.redirect(302, signed) with the URL the signer returned
RawDone(r) ==
    LET cmd == r.ops[Len(r.ops)]
    IN  Respond(r, 302, [type |-> "none"], SignedUrl(cmd.Key, cmd.expiresIn))

SignSucceeds(i) ==
    /\ reqs[i].pc = "await_sign"
    /\ reqs' = [reqs EXCEPT ![i] = RawDone([@ EXCEPT !.result = "ok"])]
    /\ UNCHANGED <<PUBLIC_BASE_URL, store, issued>>

\* faulty variant: the failure is reported the way /upload reports it
RawCatchLeaks(r, e) ==
    Respond(r, 500, [type |-> "json", error |-> ErrorMessage(e)], NoLocation)

\* catch (e) { res.status(404).send("Not found") }
RawCatch(r, e) == Respond(r, 404, [type |-> "text", text |-> "Not found"], NoLocation)

SignFails(i, e) ==
    /\ reqs[i].pc = "await_sign"
    /\ reqs' = [reqs EXCEPT ![i] =
                    RawCatch([@ EXCEPT !.result = "error", !.error = e], e)]
    /\ UNCHANGED <<PUBLIC_BASE_URL, store, issued>>

----------------------------------------------------------------------------
(* Specification *)

Init ==
    /\ PUBLIC_BASE_URL \in BaseUrls
    /\ store = <<>>
    /\ issued = {}
    /\ reqs = <<>>

Next ==
    \/ \E file \in Files \cup {NoFile} : Upload(file)
    \/ \E id \in PathIds : View(id)
    \/ \E id \in PathIds : Raw(id)
    \/ \E i \in 1..Len(reqs) : PutSucceeds(i)
    \/ \E i \in 1..Len(reqs), e \in StoreErrors : PutFails(i, e)
    \/ \E i \in 1..Len(reqs) : SignSucceeds(i)
    \/ \E i \in 1..Len(reqs), e \in StoreErrors : SignFails(i, e)

Spec == Init /\ [][Next]_vars

----------------------------------------------------------------------------
(* Vocabulary of the properties, stated independently of the handlers *)

HexDigits ==
    {"0", "1", "2", "3", "4", "5", "6", "7", "8", "9",
     "a", "b", "c", "d", "e", "f", "A", "B", "C", "D", "E", "F"}

HexDigitsAndHyphen == HexDigits \cup {"-"}

\* the Identifier Format Predicate: 20 or more characters, only hex digits
\* and hyphens
IdFormat(id) ==
    /\ Len(id) >= 20
    /\ \A i \in 1..Len(id) : id[i] \in HexDigitsAndHyphen

\* the key of the object of an identifier: id + ".mp4"
ObjectKey(id) == id \o <<".", "m", "p", "4">>

Contains(seq, sub) ==
    \E i \in 1..(Len(seq) - Len(sub) + 1) :
        SubSeq(seq, i, i + Len(sub) - 1) = sub

ReqIds == 1..Len(reqs)

\* an upload of one video/mp4 file of at most 250 MiB whose put succeeded
ValidUploadOk(r) ==
    /\ r.kind = "upload"
    /\ r.file # NoFile
    /\ r.file.mimetype = "video/mp4"
    /\ r.file.size <= 250 * 1024 * 1024
    /\ r.result = "ok"

\* the response is 200 with a JSON body {id, url}
IsUploadReply(r) ==
    /\ r.resp.status = 200
    /\ DOMAIN r.resp.body = {"type", "id", "url"}
    /\ r.resp.body.type = "json"

\* an upload whose put succeeded and was answered with an id
SuccessfulUpload(r) ==
    r.kind = "upload" /\ r.result = "ok" /\ IsUploadReply(r)

\* p is base without its trailing slashes
IsTrimmedBase(p, base) ==
    \E k \in 0..Len(base) :
        /\ p = SubSeq(base, 1, k)
        /\ k = 0 \/ base[k] # "/"
        /\ \A j \in (k + 1)..Len(base) : base[j] = "/"

\* every stored object was written by the put of an upload that passed
\* validation and whose put succeeded
StoreHoldsOnlyUploads ==
    \A k \in DOMAIN store :
        \E i \in ReqIds :
            /\ reqs[i].kind = "upload"
            /\ reqs[i].result = "ok"
            /\ reqs[i].file.mimetype = "video/mp4"
            /\ reqs[i].file.size <= 250 * 1024 * 1024
            /\ Len(reqs[i].ops) >= 1
            /\ reqs[i].ops[1].op = "put"
            /\ reqs[i].ops[1].Key = k

----------------------------------------------------------------------------
(* C1 *)

\* C1 as claimed: a valid upload whose put succeeds is answered 200 with an
\* id of the identifier format and a url equal to PUBLIC_BASE_URL followed
\* by /v/ and the id, and the store holds an object under id + ".mp4".
C1_UrlIsBasePlusPath ==
    \A i \in ReqIds :
        ValidUploadOk(reqs[i]) =>
            /\ IsUploadReply(reqs[i])
            /\ IdFormat(reqs[i].resp.body.id)
            /\ reqs[i].resp.body.url =
                   PUBLIC_BASE_URL \o <<"/", "v", "/">> \o reqs[i].resp.body.id
            /\ ObjectKey(reqs[i].resp.body.id) \in DOMAIN store

\* C1 amended: a valid upload whose put succeeds is answered 200 with an id
\* of the identifier format and a url equal to PUBLIC_BASE_URL without its
\* trailing slashes, followed by /v/ and the id, and the store holds an
\* object under id + ".mp4".
C1_UrlIsTrimmedBasePlusPath ==
    \A i \in ReqIds :
        ValidUploadOk(reqs[i]) =>
            /\ IsUploadReply(reqs[i])
            /\ IdFormat(reqs[i].resp.body.id)
            /\ \E k \in 0..Len(PUBLIC_BASE_URL) :
                  /\ IsTrimmedBase(SubSeq(PUBLIC_BASE_URL, 1, k), PUBLIC_BASE_URL)
                  /\ reqs[i].resp.body.url =
                         SubSeq(PUBLIC_BASE_URL, 1, k) \o <<"/", "v", "/">>
                             \o reqs[i].resp.body.id
            /\ ObjectKey(reqs[i].resp.body.id) \in DOMAIN store

\* a valid upload of exactly 250 MiB succeeded under a base URL that ends
\* in two slashes
C1_Witness ==
    \E i \in ReqIds :
        /\ ValidUploadOk(reqs[i])
        /\ reqs[i].file.size = 250 * 1024 * 1024
        /\ reqs[i].resp.status = 200
        /\ Len(PUBLIC_BASE_URL) >= 2
        /\ PUBLIC_BASE_URL[Len(PUBLIC_BASE_URL)] = "/"
        /\ PUBLIC_BASE_URL[Len(PUBLIC_BASE_URL) - 1] = "/"

----------------------------------------------------------------------------
(* C2 *)

\* a finished raw-playback request for an id no upload has written
RawOfUnwrittenId(r) ==
    /\ r.kind = "raw"
    /\ r.pc = "done"
    /\ ObjectKey(r.id) \notin DOMAIN store

\* C2 as claimed: GET /raw/{id} for an id never written by an upload is
\* answered 404 (read for the ids that pass the format predicate; the
\* others are answered 400).
C2_UnwrittenIdIs404 ==
    \A i \in ReqIds :
        RawOfUnwrittenId(reqs[i]) /\ IdFormat(reqs[i].id) =>
            reqs[i].resp.status = 404

\* C2 amended: GET /raw/{id} for an id never written by an upload is
\* answered 400 when the id fails the format predicate, 302 with the signed
\* URL of id + ".mp4" when signing succeeds (the object's existence is not
\* checked) and 404 "Not found" when signing fails; never with the backend's
\* error.
C2_UnwrittenIdIsRedirected ==
    \A i \in ReqIds :
        RawOfUnwrittenId(reqs[i]) =>
            /\ ~IdFormat(reqs[i].id) =>
                  /\ reqs[i].resp.status = 400
                  /\ reqs[i].resp.body = [type |-> "text", text |-> "Bad id"]
            /\ IdFormat(reqs[i].id) /\ reqs[i].result = "ok" =>
                  /\ reqs[i].resp.status = 302
                  /\ reqs[i].resp.location =
                         [Key |-> ObjectKey(reqs[i].id), expiresIn |-> 600]
            /\ IdFormat(reqs[i].id) /\ reqs[i].result = "error" =>
                  /\ reqs[i].resp.status = 404
                  /\ reqs[i].resp.body = [type |-> "text", text |-> "Not found"]
            /\ reqs[i].resp.status \in {400, 302, 404}
            /\ reqs[i].resp.body.type # "json"

\* a well-formed id that nothing was uploaded under was redirected, and a
\* second one met a signing failure
C2_Witness ==
    \E i, j \in ReqIds :
        /\ RawOfUnwrittenId(reqs[i])
        /\ IdFormat(reqs[i].id)
        /\ reqs[i].resp.status = 302
        /\ RawOfUnwrittenId(reqs[j])
        /\ reqs[j].result = "error"
        /\ reqs[j].error.message # ""

----------------------------------------------------------------------------
(* C3 *)

\* C3: for an id failing the format predicate, GET /v/{id} and GET /raw/{id}
\* answer 400 and the request issues no store operation.
C3_MalformedIdRejected ==
    \A i \in ReqIds :
        /\ reqs[i].kind \in {"view", "raw"}
        /\ Len(reqs[i].id) < 20
              \/ \E n \in 1..Len(reqs[i].id) :
                    reqs[i].id[n] \notin HexDigitsAndHyphen
        => /\ reqs[i].pc = "done"
           /\ reqs[i].resp.status = 400
           /\ reqs[i].ops = <<>>

\* a viewer request with a too short id and a raw request with a long
\* enough id holding a non-hex character were both rejected
C3_Witness ==
    \E i, j \in ReqIds :
        /\ reqs[i].kind = "view"
        /\ Len(reqs[i].id) < 20
        /\ reqs[i].resp.status = 400
        /\ reqs[j].kind = "raw"
        /\ Len(reqs[j].id) >= 20
        /\ ~IdFormat(reqs[j].id)
        /\ reqs[j].resp.status = 400

----------------------------------------------------------------------------
(* C4 *)

\* C4: an upload whose declared content type is not video/mp4 is answered
\* 400 and issues no put; the store holds only objects of accepted uploads.
C4_WrongTypeRejected ==
    /\ \A i \in ReqIds :
          /\ reqs[i].kind = "upload"
          /\ reqs[i].file # NoFile
          /\ reqs[i].file.mimetype # "video/mp4"
          => /\ reqs[i].pc = "done"
             /\ reqs[i].resp.status = 400
             /\ reqs[i].ops = <<>>
    /\ StoreHoldsOnlyUploads

\* a video/webm upload was rejected after an earlier upload had stored its
\* object, and that object is all the store holds
C4_Witness ==
    \E i, j \in ReqIds :
        /\ i < j
        /\ SuccessfulUpload(reqs[i])
        /\ reqs[j].kind = "upload"
        /\ reqs[j].file.mimetype = "video/webm"
        /\ reqs[j].resp.status = 400
        /\ DOMAIN store = {ObjectKey(reqs[i].id)}

----------------------------------------------------------------------------
(* C5 *)

\* C5: an upload whose file is larger than 250 MiB is answered 400 and
\* issues no put; the store holds only objects of accepted uploads.
C5_TooLargeRejected ==
    /\ \A i \in ReqIds :
          /\ reqs[i].kind = "upload"
          /\ reqs[i].file # NoFile
          /\ reqs[i].file.size > 250 * 1024 * 1024
          => /\ reqs[i].pc = "done"
             /\ reqs[i].resp.status = 400
             /\ reqs[i].ops = <<>>
    /\ StoreHoldsOnlyUploads

\* a video/mp4 upload one byte above the ceiling was rejected after an
\* earlier upload had stored its object, and that object is all the store
\* holds
C5_Witness ==
    \E i, j \in ReqIds :
        /\ i < j
        /\ SuccessfulUpload(reqs[i])
        /\ reqs[j].kind = "upload"
        /\ reqs[j].file.mimetype = "video/mp4"
        /\ reqs[j].file.size = 250 * 1024 * 1024 + 1
        /\ reqs[j].resp.status = 400
        /\ DOMAIN store = {ObjectKey(reqs[i].id)}

----------------------------------------------------------------------------
(* C6 *)

SuccessfulUploads == {i \in ReqIds : SuccessfulUpload(reqs[i])}

C6_DistinctObjects ==
    /\ \A i, j \in SuccessfulUploads :
          i # j =>
              /\ reqs[i].resp.body.id # reqs[j].resp.body.id
              /\ ObjectKey(reqs[i].resp.body.id) # ObjectKey(reqs[j].resp.body.id)
    /\ \A i \in SuccessfulUploads :
          ObjectKey(reqs[i].resp.body.id) \in DOMAIN store
    /\ Cardinality(DOMAIN store) = Cardinality(SuccessfulUploads)
    /\ \A k \in DOMAIN store :
          Cardinality({id \in issued : ObjectKey(id) = k}) = 1

C6_StoredObjectsKept ==
    \A k \in DOMAIN store : k \in DOMAIN store' /\ store'[k] = store[k]

\* C6: any two successful uploads, also of the same content, have distinct
\* ids and distinct stored objects; every stored object's key is id + ".mp4"
\* for exactly one issued id; no step overwrites or removes a stored object.
C6_NoDeduplication == [][C6_StoredObjectsKept]_vars /\ []C6_DistinctObjects

\* two uploads of the same bytes both succeeded and the store holds two
\* objects
C6_Witness ==
    \E i, j \in SuccessfulUploads :
        /\ i < j
        /\ reqs[i].file = reqs[j].file
        /\ Cardinality(DOMAIN store) = 2

----------------------------------------------------------------------------
(* C7 *)

\* C7: for an id of the identifier format, GET /raw/{id} asks for exactly
\* one signed URL, for the key id + ".mp4" with a lifetime of 600 seconds,
\* and answers a successful signing with a 302 redirect to that URL.
C7_SignedRedirect ==
    \A i \in ReqIds :
        reqs[i].kind = "raw" /\ IdFormat(reqs[i].id) =>
            /\ reqs[i].ops =
                   <<[op |-> "sign", Key |-> ObjectKey(reqs[i].id),
                      expiresIn |-> 600]>>
            /\ reqs[i].result = "ok" =>
                  /\ reqs[i].pc = "done"
                  /\ reqs[i].resp.status = 302
                  /\ reqs[i].resp.location =
                         SignedUrl(ObjectKey(reqs[i].id), 600)

\* a raw request for the id of a stored object was redirected
C7_Witness ==
    \E i \in ReqIds :
        /\ reqs[i].kind = "raw"
        /\ IdFormat(reqs[i].id)
        /\ ObjectKey(reqs[i].id) \in DOMAIN store
        /\ reqs[i].result = "ok"
        /\ reqs[i].resp.status = 302

----------------------------------------------------------------------------
(* C8 *)

\* C8: for an id written by a successful upload, GET /v/{id} answers 200
\* with HTML that references /raw/{id} for that id; the viewer issues no
\* store operation and the store holds only what uploads wrote.
C8_ViewerReferencesRaw ==
    /\ \A i \in ReqIds :
          /\ reqs[i].kind = "view"
          /\ \E j \in SuccessfulUploads : reqs[j].resp.body.id = reqs[i].id
          => /\ reqs[i].pc = "done"
             /\ reqs[i].resp.status = 200
             /\ reqs[i].resp.body.type = "html"
             /\ Contains(reqs[i].resp.body.html,
                         <<"/", "r", "a", "w", "/">> \o reqs[i].id)
             /\ reqs[i].ops = <<>>
    /\ \A i \in ReqIds : reqs[i].kind = "view" => reqs[i].ops = <<>>
    /\ StoreHoldsOnlyUploads

\* the viewer page was requested for the id an earlier upload returned
C8_Witness ==
    \E i, j \in ReqIds :
        /\ j < i
        /\ SuccessfulUpload(reqs[j])
        /\ reqs[i].kind = "view"
        /\ reqs[i].id = reqs[j].resp.body.id
        /\ reqs[i].resp.status = 200

----------------------------------------------------------------------------
(* C9 *)

\* C9: a request issues at most one store operation and a failure ends it;
\* a failed put is answered 500 with the backend's message and leaves no
\* object under the request's id; a failed sign is answered 404 "Not found",
\* without the backend's message.
C9_StoreFailureIsTerminal ==
    \A i \in ReqIds :
        /\ Len(reqs[i].ops) <= 1
        /\ reqs[i].result = "error" => reqs[i].pc = "done"
        /\ reqs[i].kind = "upload" /\ reqs[i].result = "error" =>
              /\ reqs[i].resp.status = 500
              /\ DOMAIN reqs[i].resp.body = {"type", "error"}
              /\ reqs[i].error.message # "" =>
                    reqs[i].resp.body.error = reqs[i].error.message
              /\ ObjectKey(reqs[i].id) \notin DOMAIN store
        /\ reqs[i].kind = "raw" /\ reqs[i].result = "error" =>
              /\ reqs[i].resp.status = 404
              /\ reqs[i].resp.body = [type |-> "text", text |-> "Not found"]

\* a put and a sign both failed with a backend message
C9_Witness ==
    \E i, j \in ReqIds :
        /\ reqs[i].kind = "upload"
        /\ reqs[i].result = "error"
        /\ reqs[i].error.message = "Access Denied"
        /\ reqs[i].resp.status = 500
        /\ reqs[j].kind = "raw"
        /\ reqs[j].result = "error"
        /\ reqs[j].error.message = "Access Denied"
        /\ reqs[j].resp.status = 404

----------------------------------------------------------------------------
(* C10 *)

\* C10: under every interleaving of in-flight requests, a request has no
\* response while it awaits the store and exactly one once its handler has
\* finished, and the id returned by a successful upload names an object
\* holding that upload's bytes.
C10_RequestsIndependent ==
    \A i \in ReqIds :
        /\ reqs[i].nresp <= 1
        /\ reqs[i].pc = "done" <=> reqs[i].nresp = 1
        /\ reqs[i].pc \in {"await_put", "await_sign", "done"}
        /\ SuccessfulUpload(reqs[i]) =>
              /\ ObjectKey(reqs[i].resp.body.id) \in DOMAIN store
              /\ store[ObjectKey(reqs[i].resp.body.id)].Body =
                     [content |-> reqs[i].file.content,
                      size |-> reqs[i].file.size]

\* two uploads of different bytes were in flight together and the later
\* one was answered first
C10_Witness ==
    \E i, j \in ReqIds :
        /\ i < j
        /\ reqs[i].kind = "upload"
        /\ reqs[i].pc = "await_put"
        /\ SuccessfulUpload(reqs[j])
        /\ reqs[i].file.content # reqs[j].file.content

====
